---- MODULE Spec2Model ----
(***************************************************************************)
(* Order lifecycle, kitchen queue and cashier settlement of the restaurant *)
(* platform.  Two implementations are modelled side by side:               *)
(*   - the in-memory object model of src/Classes (Pedido, Cliente, Caixa,  *)
(*     Cozinha), whose state is held in the unprefixed variables;          *)
(*   - the persistence-backed models of src/apps (variables prefixed db).  *)
(* Money is modelled in whole units (integers).  Every handler is one      *)
(* action; a call that raises is a step that records the exception in      *)
(* `last` and keeps whatever the handler had already changed.              *)
(***************************************************************************)
EXTENDS Integers, Sequences, FiniteSets, TLC

\* ---------------------------------------------------------------- bounds
MaxOrders == 3      \* Pedido objects that can be constructed
MaxItems == 2       \* line items per order
MaxQueue == 2       \* length of the kitchen queue
MaxChefs == 2       \* largest number_of_chefs tried
MaxBalance == 3     \* largest customer balance
MaxPrice == 2       \* largest product price
MaxDbOrders == 2    \* order rows of the persistence variant
MaxQuantity == 2    \* largest quantidade of one line item
MaxRequests == 2   \* requests that run start_next_order at the same time
MaxTotal == 4        \* largest distance of an explored order total from zero
MaxBacklog == 4      \* length of the kitchen queue when orders pile up in it
MaxCartItems == 1   \* items in the cart when it is taken to the cashier

\* ------------------------------------------------------- StatusPedido enum
CANCELED == -1
ORDERING == 0
PENDING_PAYMENT == 1
WAITING == 2
PREPARING == 3
READY == 4
BEING_DELIVERED == 5
DELIVERED == 6
StatusPedido == CANCELED..DELIVERED

Orders == 1..MaxOrders
DbOrders == 1..MaxDbOrders
Products == {1, 2}
Amounts == (-1)..MaxBalance
Requests == 1..MaxRequests
\* a request that is not running start_next_order
\* a payment request that holds no rows
PayIdle == [pc |-> "idle", order |-> 0, total |-> 0, revenue |-> 0, balance |-> 0]

Idle == [pc |-> "idle", order |-> 0, loaded |-> ORDERING]

\* exception tags (the message that identifies the raise statement)
OK == "none"
ErrTypeError == "TypeError"
ErrNotFound == "Item nao encontrado neste pedido"
ErrCanceled == "pedido cancelado"
ErrDelivered == "Pedido ja foi entregue"
ErrNotPositive == "Valor deve ser positivo"
ErrInsufficient == "Saldo insuficiente"
ErrFull == "Cozinha esta em capacidade maxima"
ErrEmpty == "Nenhum pedido na fila"
ErrNotPending == "Apenas pedidos com status PENDING_PAYMENT"
ErrNotInProgress == "Pedido nao encontrado nos pedidos em progresso"
ErrBackwards == "Nao e possivel voltar para um status anterior"
ErrNoItems == "Nao e possivel finalizar um pedido sem itens"
ErrNotOrdering == "pedido que nao esta sendo montado"
ErrFunds == "Fundos insuficientes ou valor invalido"
ErrNotPayable == "Pedido nao esta disponivel para pagamento"
ErrQuantity == "Quantidade deve ser maior que zero"
ErrNotCancelable == "Este pedido nao pode ser cancelado no status atual"
ErrNotAwaitingPayment == "Pedido nao esta aguardando pagamento"
ErrImmutable == "Nao e possivel alterar status de pedido cancelado ou entregue"
ErrMustBeWaiting == "Pedido deve estar Aguardando para ser movido para Preparando"
ErrMustBePreparing == "Pedido deve estar Preparando para ser movido para Pronto"
ErrMustBeReady == "Pedido deve estar Pronto para ser movido para Sendo Entregue"
ErrViewBackwards == "Nao e possivel voltar para um status anterior (kanban)"
ErrKitchenInactive == "Cozinha nao esta ativa"
ErrDbNotPaid == "Apenas pedidos pagos podem ser adicionados a fila"
ErrDbPagamento == "Pedido nao esta pronto para pagamento"
ErrDbSaldo == "Saldo insuficiente"
ErrDbLocked == "database is locked"
ErrDbFull == "Cozinha esta na capacidade maxima ou inativa"
ErrDbEmpty == "Nao ha pedidos na fila"
ErrDbNotInProgress == "Pedido nao esta em progresso nesta cozinha"
ErrDbNotReady == "Pedido nao esta pronto para entrega"

VARIABLES
    created,        \* Pedido objects constructed so far (their identities)
    status,         \* Pedido._status
    items,          \* Pedido._items
    total_price,    \* Pedido._total_price
    price,          \* Produto._price
    balance,        \* Cliente._balance
    cart,           \* Cliente._cart
    total_revenue,  \* Caixa._total_revenue
    orders_in_queue,                \* Cozinha._orders_in_queue
    orders_in_progress,             \* keys of Cozinha._orders_in_progress
    number_of_orders_in_progress,   \* Cozinha._number_of_orders_in_progress
    number_of_chefs,                \* Cozinha._number_of_chefs
    db_status,          \* apps.pedido Pedido.status, per order row
    db_items,           \* ItemPedido.quantidade per (pedido, produto); 0: no row
    db_total_price,     \* apps.pedido Pedido.total_price
    db_price,           \* apps.produto Produto.price
    db_balance,         \* apps.cliente Cliente.balance
    db_total_revenue,   \* apps.restaurante Caixa.total_revenue
    db_orders_in_queue,     \* Cozinha.orders_in_queue: its rows, in insertion order
    db_orders_in_progress,  \* apps.restaurante Cozinha.orders_in_progress
    db_orders_ready,        \* apps.restaurante Cozinha.orders_ready
    db_full_capacity,       \* number_of_chefs * number_of_stations
    db_is_active,           \* apps.restaurante Cozinha.is_active
    start_requests,         \* requests running Cozinha.start_next_order: position, locals
    pay_requests,           \* requests running PagamentoService.processar_pagamento: position, loaded rows
    last            \* the last call: operation, order, exception, return value

pedidoVars == <<created, status, items, total_price>>
clienteVars == <<balance, cart>>
cozinhaVars == <<orders_in_queue, orders_in_progress,
                 number_of_orders_in_progress, number_of_chefs>>
memVars == <<created, status, items, total_price, price, balance, cart,
             total_revenue, orders_in_queue, orders_in_progress,
             number_of_orders_in_progress, number_of_chefs>>
dbCozinhaVars == <<db_orders_in_queue, db_orders_in_progress,
                   db_orders_ready, db_full_capacity, db_is_active,
                   start_requests, pay_requests>>
dbVars == <<db_status, db_items, db_total_price, db_price, db_balance,
            db_total_revenue, dbCozinhaVars>>
vars == <<created, status, items, total_price, price, balance, cart,
          total_revenue, orders_in_queue, orders_in_progress,
          number_of_orders_in_progress, number_of_chefs, dbVars, last>>

Call(op, o, err, ret) == [op |-> op, order |-> o, err |-> err, ret |-> ret]

\* --------------------------------------------------------------- helpers
RECURSIVE SumPrices(_, _)
SumPrices(s, pr) == IF s = <<>> THEN 0 ELSE pr[Head(s)] + SumPrices(Tail(s), pr)

InSeq(x, s) == \E i \in 1..Len(s) : s[i] = x

\* mutant of ListRemove: drops every occurrence of x
RECURSIVE ListRemoveAll(_, _)
ListRemoveAll(s, x) ==
    IF s = <<>> THEN <<>>
    ELSE IF Head(s) = x THEN ListRemoveAll(Tail(s), x)
    ELSE <<Head(s)>> \o ListRemoveAll(Tail(s), x)

\* list.remove(x): drops the first occurrence of x
RECURSIVE ListRemove(_, _)
ListRemove(s, x) ==
    IF s = <<>> THEN <<>>
    ELSE IF Head(s) = x THEN Tail(s)
    ELSE <<Head(s)>> \o ListRemove(Tail(s), x)

\* the identity of the next Pedido object to be constructed
NewId == CHOOSE n \in Orders \ created : \A m \in Orders \ created : n <= m

\* ------------------------------------------------------------------ Init
InitKitchen(b, n, active) ==
    /\ created = {1}
    /\ status = [o \in Orders |-> ORDERING]
    /\ items = [o \in Orders |-> <<>>]
    /\ total_price = [o \in Orders |-> 0]
    /\ price = [p \in Products |-> p]
    /\ balance = b
    /\ cart = 1
    /\ total_revenue = 0
    /\ orders_in_queue = <<>>
    /\ orders_in_progress = {}
    /\ number_of_orders_in_progress = 0
    /\ number_of_chefs = n
    /\ db_status = [o \in DbOrders |-> ORDERING]
    /\ db_items = [o \in DbOrders |-> [p \in Products |-> 0]]
    /\ db_total_price = [o \in DbOrders |-> 0]
    /\ db_price = [p \in Products |-> p]
    /\ db_balance = b
    /\ db_total_revenue = 0
    /\ db_orders_in_queue = <<>>
    /\ db_orders_in_progress = {}
    /\ db_orders_ready = {}
    /\ db_full_capacity = n
    /\ db_is_active = active
    /\ start_requests = [r \in Requests |-> Idle]
    /\ pay_requests = [r \in Requests |-> PayIdle]
    /\ last = Call("init", 0, OK, 0)

\* is_active defaults to True
InitWith(b, n) == InitKitchen(b, n, TRUE)

Init == \E b \in 0..MaxBalance, n \in 1..MaxChefs : InitWith(b, n)

\* a customer with any initial balance; the kitchen is not used
InitCaixa == \E b \in 0..MaxBalance : InitWith(b, 1)

\* a kitchen with any number of chefs; the customer's balance is not used
InitCozinha == \E n \in 1..MaxChefs : InitWith(0, n)

InitPedido == InitWith(0, 1)

\* a kitchen row with any number of chefs, active or not
InitKanban == \E n \in 1..MaxChefs, a \in BOOLEAN : InitKitchen(0, n, a)

\* ------------------------------------------------------- in-memory Pedido
\* Pedido(status=s)
NewPedido(s) ==
    /\ created # Orders
    /\ created' = created \cup {NewId}
    /\ status' = [status EXCEPT ![NewId] = s]
    /\ items' = [items EXCEPT ![NewId] = <<>>]
    /\ total_price' = [total_price EXCEPT ![NewId] = 0]
    /\ last' = Call("Pedido", NewId, OK, 0)
    /\ UNCHANGED <<price, clienteVars, total_revenue, cozinhaVars, dbVars>>

add_item(o, p) ==
    /\ o \in created
    /\ Len(items[o]) < MaxItems
    /\ items' = [items EXCEPT ![o] = Append(@, p)]
    /\ total_price' = [total_price EXCEPT ![o] = @ + price[p]]
    /\ last' = Call("add_item", o, OK, 0)
    /\ UNCHANGED <<created, status, price, clienteVars, total_revenue, cozinhaVars, dbVars>>

\* mutant of remove_item: an absent product is ignored instead of refused
remove_item_ignores_absent(o, p) ==
    /\ o \in created
    /\ IF ~InSeq(p, items[o])
       THEN /\ last' = Call("remove_item", o, OK, 0)
            /\ UNCHANGED <<items, total_price>>
       ELSE /\ items' = [items EXCEPT ![o] = ListRemove(@, p)]
            /\ total_price' = [total_price EXCEPT ![o] = @ - price[p]]
            /\ last' = Call("remove_item", o, OK, 0)
    /\ UNCHANGED <<created, status, price, clienteVars, total_revenue, cozinhaVars, dbVars>>

remove_item(o, p) ==
    /\ o \in created
    /\ IF ~InSeq(p, items[o])
       THEN /\ last' = Call("remove_item", o, ErrNotFound, 0)
            /\ UNCHANGED <<items, total_price>>
       ELSE /\ items' = [items EXCEPT ![o] = ListRemove(@, p)]
            /\ total_price' = [total_price EXCEPT ![o] = @ - price[p]]
            /\ last' = Call("remove_item", o, OK, 0)
    /\ UNCHANGED <<created, status, price, clienteVars, total_revenue, cozinhaVars, dbVars>>

\* price setter of Produto
set_price(p, v) ==
    /\ p \in Products
    /\ IF v < 0
       THEN /\ last' = Call("price", 0, "Preco nao pode ser negativo", 0)
            /\ UNCHANGED price
       ELSE /\ price' = [price EXCEPT ![p] = v]
            /\ last' = Call("price", 0, OK, 0)
    /\ UNCHANGED <<pedidoVars, clienteVars, total_revenue, cozinhaVars, dbVars>>

\* Produto.apply_discount(discount): the discounts are the whole numbers
\* around the accepted interval [0, 1]
Discounts == (-1)..2

apply_discount(p, d) ==
    /\ p \in Products
    /\ IF ~(0 <= d /\ d <= 1)
       THEN /\ last' = Call("apply_discount", 0, "Desconto deve estar entre 0 e 1", 0)
            /\ UNCHANGED price
       ELSE /\ price' = [price EXCEPT ![p] = @ * (1 - d)]
            /\ last' = Call("apply_discount", 0, OK, 0)
    /\ UNCHANGED <<pedidoVars, clienteVars, total_revenue, cozinhaVars, dbVars>>

\* The outcome of Pedido.go_to_next_status on status s: the exception it
\* raises (OK when it returns) and the status it leaves.
NextStatusErr(s) ==
    IF s = CANCELED THEN ErrCanceled
    ELSE IF s = DELIVERED THEN ErrDelivered
    ELSE OK

\* mutant of NextStatus: the status after the next one is taken
NextStatusSkipsOne(s) ==
    IF NextStatusErr(s) # OK THEN s
    ELSE IF s + 2 <= DELIVERED THEN s + 2 ELSE DELIVERED

NextStatus(s) == IF NextStatusErr(s) = OK THEN s + 1 ELSE s

go_to_next_status(o) ==
    /\ o \in created
    /\ status' = [status EXCEPT ![o] = NextStatus(@)]
    /\ last' = Call("go_to_next_status", o, NextStatusErr(status[o]), 0)
    /\ UNCHANGED <<created, items, total_price, price, clienteVars,
                   total_revenue, cozinhaVars, dbVars>>

\* StatusPedido is a plain Enum, so `new_status < self._status` raises
\* TypeError before anything is assigned, for every pair of members.
ChangeStatusErr(cur, new) == ErrTypeError

ChangeStatus(cur, new) == IF ChangeStatusErr(cur, new) = OK THEN new ELSE cur

change_status(o, s) ==
    /\ o \in created
    /\ status' = [status EXCEPT ![o] = ChangeStatus(@, s)]
    /\ last' = Call("change_status", o, ChangeStatusErr(status[o], s), s)
    /\ UNCHANGED <<created, items, total_price, price, clienteVars,
                   total_revenue, cozinhaVars, dbVars>>

\* ------------------------------------------------------ in-memory Cliente
\* mutant of AddFundsErr: tests amount < 0, so a deposit of zero is accepted
AddFundsErrAcceptsZero(amount) == IF amount < 0 THEN ErrNotPositive ELSE OK

AddFundsErr(amount) == IF amount <= 0 THEN ErrNotPositive ELSE OK

add_funds(amount) ==
    /\ balance + amount <= MaxBalance
    /\ IF AddFundsErr(amount) # OK
       THEN UNCHANGED balance
       ELSE balance' = balance + amount
    /\ last' = Call("add_funds", 0, AddFundsErr(amount), 0)
    /\ UNCHANGED <<pedidoVars, price, cart, total_revenue, cozinhaVars, dbVars>>

\* mutant of RemoveFundsErr: the balance is not compared with the amount
RemoveFundsErrNoBalanceCheck(bal, amount) ==
    IF amount <= 0 THEN ErrNotPositive ELSE OK

\* The exception Cliente.remove_funds(amount) raises on balance bal.
RemoveFundsErr(bal, amount) ==
    IF amount <= 0 THEN ErrNotPositive
    ELSE IF amount > bal THEN ErrInsufficient
    ELSE OK

remove_funds(amount) ==
    /\ IF RemoveFundsErr(balance, amount) # OK
       THEN UNCHANGED balance
       ELSE balance' = balance - amount
    /\ last' = Call("remove_funds", 0, RemoveFundsErr(balance, amount), 0)
    /\ UNCHANGED <<pedidoVars, price, cart, total_revenue, cozinhaVars, dbVars>>

\* The exception Cliente.pay_cart raises: its own balance check, then
\* remove_funds, then the cart's change_status(PENDING_PAYMENT).
PayCartErr ==
    IF balance < total_price[cart] THEN ErrInsufficient
    ELSE IF RemoveFundsErr(balance, total_price[cart]) # OK
         THEN RemoveFundsErr(balance, total_price[cart])
    ELSE ChangeStatusErr(status[cart], PENDING_PAYMENT)

pay_cart ==
    /\ IF balance < total_price[cart]
          \/ RemoveFundsErr(balance, total_price[cart]) # OK
       THEN UNCHANGED <<balance, status>>
       ELSE /\ balance' = balance - total_price[cart]
            /\ status' = [status EXCEPT ![cart] = ChangeStatus(@, PENDING_PAYMENT)]
    /\ last' = Call("pay_cart", cart, PayCartErr, 0)
    /\ UNCHANGED <<created, items, total_price, price, cart, total_revenue,
                   cozinhaVars, dbVars>>

\* -------------------------------------------------------- in-memory Caixa
\* The exception Caixa.process_payment raises: its own balance check, then
\* whatever client.remove_funds(order_total) raises.
ProcessPaymentErr ==
    IF balance < total_price[cart] THEN ErrInsufficient
    ELSE RemoveFundsErr(balance, total_price[cart])

\* mutant of process_payment: the revenue is credited before the balance is
\* checked
process_payment_credit_first ==
    /\ IF ProcessPaymentErr # OK
       THEN /\ last' = Call("process_payment", cart, ProcessPaymentErr, 0)
            /\ total_revenue' = total_revenue + total_price[cart]
            /\ UNCHANGED <<pedidoVars, clienteVars>>
       ELSE /\ created # Orders
            /\ balance' = balance - total_price[cart]
            /\ total_revenue' = total_revenue + total_price[cart]
            /\ created' = created \cup {NewId}
            /\ status' = [status EXCEPT ![NewId] = ORDERING]
            /\ items' = [items EXCEPT ![NewId] = <<>>]
            /\ total_price' = [total_price EXCEPT ![NewId] = 0]
            /\ cart' = NewId
            /\ last' = Call("process_payment", cart, OK, total_price[cart])
    /\ UNCHANGED <<price, cozinhaVars, dbVars>>

\* mutant of process_payment: the customer is debited, the revenue is not
\* credited
process_payment_no_credit ==
    /\ IF ProcessPaymentErr # OK
       THEN /\ last' = Call("process_payment", cart, ProcessPaymentErr, 0)
            /\ UNCHANGED <<pedidoVars, clienteVars, total_revenue>>
       ELSE /\ created # Orders
            /\ balance' = balance - total_price[cart]
            /\ UNCHANGED total_revenue
            /\ created' = created \cup {NewId}
            /\ status' = [status EXCEPT ![NewId] = ORDERING]
            /\ items' = [items EXCEPT ![NewId] = <<>>]
            /\ total_price' = [total_price EXCEPT ![NewId] = 0]
            /\ cart' = NewId
            /\ last' = Call("process_payment", cart, OK, total_price[cart])
    /\ UNCHANGED <<price, cozinhaVars, dbVars>>

\* mutant of process_payment: the paid cart is emptied in place instead of
\* being replaced by a new order
process_payment_same_cart ==
    /\ IF ProcessPaymentErr # OK
       THEN /\ last' = Call("process_payment", cart, ProcessPaymentErr, 0)
            /\ UNCHANGED <<pedidoVars, clienteVars, total_revenue>>
       ELSE /\ balance' = balance - total_price[cart]
            /\ total_revenue' = total_revenue + total_price[cart]
            /\ items' = [items EXCEPT ![cart] = <<>>]
            /\ total_price' = [total_price EXCEPT ![cart] = 0]
            /\ UNCHANGED <<created, status, cart>>
            /\ last' = Call("process_payment", cart, OK, total_price[cart])
    /\ UNCHANGED <<price, cozinhaVars, dbVars>>

process_payment ==
    /\ IF ProcessPaymentErr # OK
       THEN /\ last' = Call("process_payment", cart, ProcessPaymentErr, 0)
            /\ UNCHANGED <<pedidoVars, clienteVars, total_revenue>>
       ELSE /\ created # Orders
            /\ balance' = balance - total_price[cart]
            /\ total_revenue' = total_revenue + total_price[cart]
            /\ created' = created \cup {NewId}
            /\ status' = [status EXCEPT ![NewId] = ORDERING]
            /\ items' = [items EXCEPT ![NewId] = <<>>]
            /\ total_price' = [total_price EXCEPT ![NewId] = 0]
            /\ cart' = NewId
            /\ last' = Call("process_payment", cart, OK, total_price[cart])
    /\ UNCHANGED <<price, cozinhaVars, dbVars>>

\* ------------------------------------------------------ in-memory Cozinha
\* mutant of is_at_full_capacity: full only once the capacity is exceeded
is_at_full_capacity_off_by_one == number_of_orders_in_progress > number_of_chefs

is_at_full_capacity == number_of_orders_in_progress >= number_of_chefs

\* mutant of StartNextOrderErr: the empty queue is tested before the capacity
StartNextOrderErrEmptyFirst ==
    IF orders_in_queue = <<>> THEN ErrEmpty
    ELSE IF is_at_full_capacity THEN ErrFull
    ELSE NextStatusErr(status[Head(orders_in_queue)])

StartNextOrderErr ==
    IF is_at_full_capacity THEN ErrFull
    ELSE IF orders_in_queue = <<>> THEN ErrEmpty
    ELSE NextStatusErr(status[Head(orders_in_queue)])

start_next_order ==
    /\ IF is_at_full_capacity \/ orders_in_queue = <<>>
       THEN /\ last' = Call("start_next_order", 0, StartNextOrderErr, 0)
            /\ UNCHANGED <<status, orders_in_queue, orders_in_progress,
                           number_of_orders_in_progress>>
       ELSE /\ orders_in_queue' = Tail(orders_in_queue)
            /\ last' = Call("start_next_order", Head(orders_in_queue),
                            StartNextOrderErr,
                            IF StartNextOrderErr = OK
                            THEN Head(orders_in_queue) ELSE 0)
            /\ IF StartNextOrderErr # OK
               THEN UNCHANGED <<status, orders_in_progress,
                                number_of_orders_in_progress>>
               ELSE /\ status' = [status EXCEPT
                                    ![Head(orders_in_queue)] = NextStatus(@)]
                    /\ orders_in_progress' =
                           orders_in_progress \cup {Head(orders_in_queue)}
                    /\ number_of_orders_in_progress' =
                           number_of_orders_in_progress + 1
    /\ UNCHANGED <<created, items, total_price, price, clienteVars,
                   total_revenue, number_of_chefs, dbVars>>

\* mutant of AddOrderErr: an order still being assembled is accepted too
AddOrderErrAcceptsOrdering(o) ==
    IF status[o] \notin {ORDERING, PENDING_PAYMENT} THEN ErrNotPending ELSE OK

AddOrderErr(o) == IF status[o] # PENDING_PAYMENT THEN ErrNotPending ELSE OK

\* mutant of add_order_to_queue: the order is inserted at the head
add_order_to_queue_at_head(o) ==
    /\ o \in created
    /\ IF AddOrderErr(o) # OK
       THEN UNCHANGED orders_in_queue
       ELSE /\ Len(orders_in_queue) < MaxQueue
            /\ orders_in_queue' = <<o>> \o orders_in_queue
    /\ last' = Call("add_order_to_queue", o, AddOrderErr(o), 0)
    /\ UNCHANGED <<pedidoVars, price, clienteVars, total_revenue,
                   orders_in_progress, number_of_orders_in_progress,
                   number_of_chefs, dbVars>>

\* Cozinha.add_order_to_queue(o) while the queue holds fewer than n entries
AddOrderToQueue(o, n) ==
    /\ o \in created
    /\ IF AddOrderErr(o) # OK
       THEN UNCHANGED orders_in_queue
       ELSE /\ Len(orders_in_queue) < n
            /\ orders_in_queue' = Append(orders_in_queue, o)
    /\ last' = Call("add_order_to_queue", o, AddOrderErr(o), 0)
    /\ UNCHANGED <<pedidoVars, price, clienteVars, total_revenue,
                   orders_in_progress, number_of_orders_in_progress,
                   number_of_chefs, dbVars>>

add_order_to_queue(o) == AddOrderToQueue(o, MaxQueue)

\* mutant of add_priority_order_to_queue: the order is appended at the tail
add_priority_order_to_queue_at_tail(o) ==
    /\ o \in created
    /\ IF AddOrderErr(o) # OK
       THEN UNCHANGED orders_in_queue
       ELSE /\ Len(orders_in_queue) < MaxQueue
            /\ orders_in_queue' = Append(orders_in_queue, o)
    /\ last' = Call("add_priority_order_to_queue", o, AddOrderErr(o), 0)
    /\ UNCHANGED <<pedidoVars, price, clienteVars, total_revenue,
                   orders_in_progress, number_of_orders_in_progress,
                   number_of_chefs, dbVars>>

add_priority_order_to_queue(o) ==
    /\ o \in created
    /\ IF AddOrderErr(o) # OK
       THEN UNCHANGED orders_in_queue
       ELSE /\ Len(orders_in_queue) < MaxQueue
            /\ orders_in_queue' = <<o>> \o orders_in_queue
    /\ last' = Call("add_priority_order_to_queue", o, AddOrderErr(o), 0)
    /\ UNCHANGED <<pedidoVars, price, clienteVars, total_revenue,
                   orders_in_progress, number_of_orders_in_progress,
                   number_of_chefs, dbVars>>

\* mutant of CompleteOrderErr: an order that is not in progress is ignored
CompleteOrderErrSilent(o) ==
    IF o \notin orders_in_progress THEN OK
    ELSE NextStatusErr(status[o])

CompleteOrderErr(o) ==
    IF o \notin orders_in_progress THEN ErrNotInProgress
    ELSE NextStatusErr(status[o])

complete_order(o) ==
    /\ o \in created
    /\ IF o \notin orders_in_progress
       THEN UNCHANGED <<status, orders_in_progress, number_of_orders_in_progress>>
       ELSE /\ orders_in_progress' = orders_in_progress \ {o}
            /\ number_of_orders_in_progress' = number_of_orders_in_progress - 1
            /\ status' = [status EXCEPT ![o] = NextStatus(@)]
    /\ last' = Call("complete_order", o, CompleteOrderErr(o), 0)
    /\ UNCHANGED <<created, items, total_price, price, clienteVars,
                   total_revenue, orders_in_queue, number_of_chefs, dbVars>>

\* ------------------------------------------- persistence variant: Pedido
\* StatusPedido is a TextChoices there: the values are the strings '-1',
\* '0' .. '6' and `<` compares them as strings, character code by character
\* code.
StatusText(s) == IF s = CANCELED THEN <<45, 49>> ELSE <<48 + s>>

RECURSIVE StrLess(_, _)
StrLess(a, b) ==
    IF b = <<>> THEN FALSE
    ELSE IF a = <<>> THEN TRUE
    ELSE IF Head(a) # Head(b) THEN Head(a) < Head(b)
    ELSE StrLess(Tail(a), Tail(b))

DbHasItems(o) == \E p \in Products : db_items[o][p] > 0

\* Pedido.calculate_total over the rows its, at the products' current prices
DbTotal(its) == its[1] * db_price[1] + its[2] * db_price[2]

DbChangeStatusErr(o, new) ==
    IF StrLess(StatusText(new), StatusText(db_status[o])) /\ new # CANCELED
    THEN ErrBackwards
    ELSE IF new = PENDING_PAYMENT /\ ~DbHasItems(o) THEN ErrNoItems
    ELSE OK

db_change_status(o, s) ==
    /\ IF DbChangeStatusErr(o, s) # OK
       THEN UNCHANGED db_status
       ELSE db_status' = [db_status EXCEPT ![o] = s]
    /\ last' = Call("db_change_status", o, DbChangeStatusErr(o, s), s)
    /\ UNCHANGED <<memVars, dbCozinhaVars, db_items, db_total_price, db_price, db_balance,
                   db_total_revenue>>

\* [choice[0] for choice in StatusPedido.choices], in declaration order
DbStatusValues ==
    <<CANCELED, ORDERING, PENDING_PAYMENT, WAITING, PREPARING, READY,
      BEING_DELIVERED, DELIVERED>>

DbStatusIndex(s) == CHOOSE i \in DOMAIN DbStatusValues : DbStatusValues[i] = s

DbNextStatus(s) ==
    IF NextStatusErr(s) # OK THEN s
    ELSE IF DbStatusIndex(s) < Len(DbStatusValues)
         THEN DbStatusValues[DbStatusIndex(s) + 1]
         ELSE s

db_go_to_next_status(o) ==
    /\ db_status' = [db_status EXCEPT ![o] = DbNextStatus(@)]
    /\ last' = Call("db_go_to_next_status", o, NextStatusErr(db_status[o]), 0)
    /\ UNCHANGED <<memVars, dbCozinhaVars, db_items, db_total_price, db_price, db_balance,
                   db_total_revenue>>

db_add_item(o, p) ==
    /\ IF db_status[o] # ORDERING
       THEN /\ last' = Call("db_add_item", o, ErrNotOrdering, 0)
            /\ UNCHANGED <<db_items, db_total_price>>
       ELSE /\ db_items[o][p] < MaxQuantity
            /\ db_items' = [db_items EXCEPT ![o][p] = @ + 1]
            /\ db_total_price' = [db_total_price EXCEPT
                                    ![o] = DbTotal(db_items'[o])]
            /\ last' = Call("db_add_item", o, OK, 0)
    /\ UNCHANGED <<memVars, dbCozinhaVars, db_status, db_price, db_balance, db_total_revenue>>

DbRemoveItemErr(o, p) ==
    IF db_status[o] # ORDERING THEN ErrNotOrdering
    ELSE IF db_items[o][p] = 0 THEN ErrNotFound
    ELSE OK

db_remove_item(o, p) ==
    /\ IF DbRemoveItemErr(o, p) # OK
       THEN UNCHANGED <<db_items, db_total_price>>
       ELSE /\ db_items' = [db_items EXCEPT ![o][p] = 0]
            /\ db_total_price' = [db_total_price EXCEPT
                                    ![o] = DbTotal(db_items'[o])]
    /\ last' = Call("db_remove_item", o, DbRemoveItemErr(o, p), 0)
    /\ UNCHANGED <<memVars, dbCozinhaVars, db_status, db_price, db_balance, db_total_revenue>>

\* ------------------------- persistence variant: PedidoService, line items
\* quantidade arguments of the item operations
Quantities == 0..MaxQuantity

AdicionarItemErr(o, q) ==
    IF db_status[o] # ORDERING THEN ErrNotOrdering
    ELSE IF q <= 0 THEN ErrQuantity
    ELSE OK

\* PedidoService.adicionar_item(pedido_id, produto_id, quantidade)
adicionar_item(o, p, q) ==
    /\ IF AdicionarItemErr(o, q) # OK
       THEN UNCHANGED <<db_items, db_total_price>>
       ELSE /\ db_items[o][p] + q <= MaxQuantity
            /\ db_items' = [db_items EXCEPT ![o][p] = @ + q]
            /\ db_total_price' = [db_total_price EXCEPT
                                    ![o] = DbTotal(db_items'[o])]
    /\ last' = Call("adicionar_item", o, AdicionarItemErr(o, q), 0)
    /\ UNCHANGED <<memVars, dbCozinhaVars, db_status, db_price, db_balance, db_total_revenue>>

RemoverItemErr(o, p) ==
    IF db_status[o] # ORDERING THEN ErrNotOrdering
    ELSE IF db_items[o][p] = 0 THEN ErrNotFound
    ELSE OK

\* the rows after PedidoService.remover_item: item.delete(), calculate_total()
RemoverItemRows(o, p) ==
    IF RemoverItemErr(o, p) # OK
    THEN UNCHANGED <<db_items, db_total_price>>
    ELSE /\ db_items' = [db_items EXCEPT ![o][p] = 0]
         /\ db_total_price' = [db_total_price EXCEPT ![o] = DbTotal(db_items'[o])]

\* PedidoService.remover_item(pedido_id, produto_id)
remover_item(o, p) ==
    /\ RemoverItemRows(o, p)
    /\ last' = Call("remover_item", o, RemoverItemErr(o, p), 0)
    /\ UNCHANGED <<memVars, dbCozinhaVars, db_status, db_price, db_balance, db_total_revenue>>

\* mutant of AtualizarQuantidadeErr: the status of the order is not tested
AtualizarQuantidadeErrAnyStatus(o, p, q) ==
    IF q = 0 THEN RemoverItemErr(o, p)
    ELSE IF db_items[o][p] = 0 THEN ErrNotFound
    ELSE OK

AtualizarQuantidadeErr(o, p, q) ==
    IF q = 0 THEN RemoverItemErr(o, p)
    ELSE IF db_status[o] # ORDERING THEN ErrNotOrdering
    ELSE IF db_items[o][p] = 0 THEN ErrNotFound
    ELSE OK

\* PedidoService.atualizar_quantidade_item(pedido_id, produto_id, nova_quantidade)
atualizar_quantidade_item(o, p, q) ==
    /\ IF q = 0
       THEN RemoverItemRows(o, p)
       ELSE IF AtualizarQuantidadeErr(o, p, q) # OK
       THEN UNCHANGED <<db_items, db_total_price>>
       ELSE /\ db_items' = [db_items EXCEPT ![o][p] = q]
            /\ db_total_price' = [db_total_price EXCEPT
                                    ![o] = DbTotal(db_items'[o])]
    /\ last' = Call("atualizar_quantidade_item", o, AtualizarQuantidadeErr(o, p, q), 0)
    /\ UNCHANGED <<memVars, dbCozinhaVars, db_status, db_price, db_balance, db_total_revenue>>

\* ---------------------------------- persistence variant: Cliente and Caixa
db_add_funds(amount) ==
    /\ db_balance + amount <= MaxBalance
    /\ IF amount > 0
       THEN /\ db_balance' = db_balance + amount
            /\ last' = Call("db_add_funds", 0, OK, 0)
       ELSE /\ UNCHANGED db_balance
            /\ last' = Call("db_add_funds", 0, ErrNotPositive, 0)
    /\ UNCHANGED <<memVars, dbCozinhaVars, db_status, db_items, db_total_price, db_price,
                   db_total_revenue>>

DbRemoveFundsErr(bal, amount) ==
    IF 0 < amount /\ amount <= bal THEN OK ELSE ErrFunds

db_remove_funds(amount) ==
    /\ IF DbRemoveFundsErr(db_balance, amount) = OK
       THEN db_balance' = db_balance - amount
       ELSE UNCHANGED db_balance
    /\ last' = Call("db_remove_funds", 0, DbRemoveFundsErr(db_balance, amount), 0)
    /\ UNCHANGED <<memVars, dbCozinhaVars, db_status, db_items, db_total_price, db_price,
                   db_total_revenue>>

\* Caixa.process_payment(cliente, pedido): the status check, the balance
\* check, remove_funds, add_revenue, then change_status(PENDING_PAYMENT).
DbProcessPaymentErr(o) ==
    IF db_status[o] # ORDERING THEN ErrNotPayable
    ELSE IF ~(db_balance >= db_total_price[o]) THEN ErrInsufficient
    ELSE IF DbRemoveFundsErr(db_balance, db_total_price[o]) # OK
         THEN DbRemoveFundsErr(db_balance, db_total_price[o])
    ELSE DbChangeStatusErr(o, PENDING_PAYMENT)

db_process_payment(o) ==
    /\ IF db_status[o] # ORDERING
          \/ ~(db_balance >= db_total_price[o])
          \/ DbRemoveFundsErr(db_balance, db_total_price[o]) # OK
       THEN UNCHANGED <<db_balance, db_total_revenue, db_status>>
       ELSE /\ db_balance' = db_balance - db_total_price[o]
            /\ db_total_revenue' = db_total_revenue + db_total_price[o]
            /\ IF DbChangeStatusErr(o, PENDING_PAYMENT) # OK
               THEN UNCHANGED db_status
               ELSE db_status' = [db_status EXCEPT ![o] = PENDING_PAYMENT]
    /\ last' = Call("db_process_payment", o, DbProcessPaymentErr(o),
                    IF DbProcessPaymentErr(o) = OK THEN 1 ELSE 0)
    /\ UNCHANGED <<memVars, dbCozinhaVars, db_items, db_total_price, db_price>>

\* ------------------------------------------ persistence variant: Cozinha
\* The three collections are many-to-many relations: sets of order rows.
\* orders_in_queue keeps its rows in the order of their insertion (the
\* through table's keys), which is the order in which the orders entered.
\* Every step is saved at once; no method runs inside a transaction.
DbQueued == {db_orders_in_queue[i] : i \in 1..Len(db_orders_in_queue)}

\* orders_in_queue.add(o): an order already related is not inserted again
RelationAdd(q, o) == IF InSeq(o, q) THEN q ELSE Append(q, o)

\* orders_in_queue.remove(o)
RelationRemove(q, o) == SelectSeq(q, LAMBDA x : x # o)

db_can_start_new_order ==
    Cardinality(db_orders_in_progress) < db_full_capacity /\ db_is_active

\* orders_in_queue.first(): Pedido's Meta ordering is -created_at, and the
\* rows were created in the order of their identifiers
DbFirst(q) ==
    CHOOSE o \in {q[i] : i \in 1..Len(q)} : \A i \in 1..Len(q) : q[i] <= o

DbAddOrderErr(o) ==
    IF db_status[o] # PENDING_PAYMENT THEN ErrDbNotPaid
    ELSE DbChangeStatusErr(o, WAITING)

db_add_order_to_queue(o) ==
    /\ IF DbAddOrderErr(o) # OK
       THEN UNCHANGED <<db_status, db_orders_in_queue>>
       ELSE /\ db_status' = [db_status EXCEPT ![o] = WAITING]
            /\ db_orders_in_queue' = RelationAdd(db_orders_in_queue, o)
    /\ last' = Call("db_add_order_to_queue", o, DbAddOrderErr(o), 0)
    /\ UNCHANGED <<memVars, db_items, db_total_price, db_price, db_balance,
                   db_total_revenue, db_orders_in_progress, db_orders_ready,
                   db_full_capacity, db_is_active, start_requests, pay_requests>>

DbStartNextOrderErr ==
    IF ~db_can_start_new_order THEN ErrDbFull
    ELSE IF db_orders_in_queue = <<>> THEN ErrDbEmpty
    ELSE DbChangeStatusErr(DbFirst(db_orders_in_queue), PREPARING)

db_start_next_order ==
    /\ IF ~db_can_start_new_order \/ db_orders_in_queue = <<>>
       THEN /\ last' = Call("db_start_next_order", 0, DbStartNextOrderErr, 0)
            /\ UNCHANGED <<db_status, db_orders_in_queue,
                           db_orders_in_progress>>
       ELSE /\ db_orders_in_queue' =
                   RelationRemove(db_orders_in_queue, DbFirst(db_orders_in_queue))
            /\ last' = Call("db_start_next_order", DbFirst(db_orders_in_queue),
                            DbStartNextOrderErr,
                            IF DbStartNextOrderErr = OK
                            THEN DbFirst(db_orders_in_queue) ELSE 0)
            /\ IF DbStartNextOrderErr # OK
               THEN UNCHANGED <<db_status, db_orders_in_progress>>
               ELSE /\ db_status' = [db_status EXCEPT
                           ![DbFirst(db_orders_in_queue)] = PREPARING]
                    /\ db_orders_in_progress' = db_orders_in_progress
                           \cup {DbFirst(db_orders_in_queue)}
    /\ UNCHANGED <<memVars, db_items, db_total_price, db_price, db_balance,
                   db_total_revenue, db_orders_ready, db_full_capacity,
                   db_is_active, start_requests, pay_requests>>

DbCompleteOrderErr(o) ==
    IF o \notin db_orders_in_progress THEN ErrDbNotInProgress
    ELSE DbChangeStatusErr(o, READY)

db_complete_order(o) ==
    /\ IF o \notin db_orders_in_progress
       THEN UNCHANGED <<db_status, db_orders_in_progress, db_orders_ready>>
       ELSE /\ db_orders_in_progress' = db_orders_in_progress \ {o}
            /\ IF DbCompleteOrderErr(o) # OK
               THEN UNCHANGED <<db_status, db_orders_ready>>
               ELSE /\ db_status' = [db_status EXCEPT ![o] = READY]
                    /\ db_orders_ready' = db_orders_ready \cup {o}
    /\ last' = Call("db_complete_order", o, DbCompleteOrderErr(o), 0)
    /\ UNCHANGED <<memVars, db_items, db_total_price, db_price, db_balance,
                   db_total_revenue, db_orders_in_queue, db_full_capacity,
                   db_is_active, start_requests, pay_requests>>

DbDeliverOrderErr(o) ==
    IF o \notin db_orders_ready THEN ErrDbNotReady
    ELSE DbChangeStatusErr(o, BEING_DELIVERED)

db_deliver_order(o) ==
    /\ IF o \notin db_orders_ready
       THEN UNCHANGED <<db_status, db_orders_ready>>
       ELSE /\ db_orders_ready' = db_orders_ready \ {o}
            /\ IF DbDeliverOrderErr(o) # OK
               THEN UNCHANGED db_status
               ELSE db_status' = [db_status EXCEPT ![o] = BEING_DELIVERED]
    /\ last' = Call("db_deliver_order", o, DbDeliverOrderErr(o), 0)
    /\ UNCHANGED <<memVars, db_items, db_total_price, db_price, db_balance,
                   db_total_revenue, db_orders_in_queue,
                   db_orders_in_progress, db_full_capacity, db_is_active,
                   start_requests, pay_requests>>

\* cozinha.is_active = v; cozinha.save()
db_set_is_active(v) ==
    /\ db_is_active' = v
    /\ last' = Call("db_set_is_active", 0, OK, 0)
    /\ UNCHANGED <<memVars, db_status, db_items, db_total_price, db_price,
                   db_balance, db_total_revenue, db_orders_in_queue,
                   db_orders_in_progress, db_orders_ready, db_full_capacity,
                   start_requests, pay_requests>>

\* --------------------- persistence variant: PedidoService, status operations
\* PedidoService._associar_pedido_cozinha(pedido), st being the status the
\* order has just been given: without an active kitchen nothing is done;
\* otherwise the order is taken out of the three relations and put into the
\* one of its status. Capacity is not looked at.
AssociarPedidoCozinha(o, st) ==
    IF ~db_is_active
    THEN UNCHANGED <<db_orders_in_queue, db_orders_in_progress, db_orders_ready>>
    ELSE /\ db_orders_in_queue' =
              IF st = WAITING
              THEN RelationAdd(RelationRemove(db_orders_in_queue, o), o)
              ELSE RelationRemove(db_orders_in_queue, o)
         /\ db_orders_in_progress' =
              IF st = PREPARING
              THEN db_orders_in_progress \cup {o}
              ELSE db_orders_in_progress \ {o}
         /\ db_orders_ready' =
              IF st = READY
              THEN db_orders_ready \cup {o}
              ELSE db_orders_ready \ {o}

\* what the status operations of the service never write
ServiceVarsUnchanged ==
    UNCHANGED <<memVars, db_items, db_total_price, db_price, db_balance,
                db_total_revenue, db_full_capacity, db_is_active,
                start_requests, pay_requests>>

\* the body of PedidoService.mudar_status, one transaction
MudarStatusRows(o, s) ==
    IF DbChangeStatusErr(o, s) # OK
    THEN UNCHANGED <<db_status, db_orders_in_queue, db_orders_in_progress,
                     db_orders_ready>>
    ELSE /\ db_status' = [db_status EXCEPT ![o] = s]
         /\ AssociarPedidoCozinha(o, s)

\* PedidoService.mudar_status(pedido_id, novo_status)
mudar_status(o, s) ==
    /\ MudarStatusRows(o, s)
    /\ last' = Call("mudar_status", o, DbChangeStatusErr(o, s), s)
    /\ ServiceVarsUnchanged

\* PedidoService.avancar_status(pedido_id)
avancar_status(o) ==
    /\ IF NextStatusErr(db_status[o]) # OK
       THEN UNCHANGED <<db_status, db_orders_in_queue, db_orders_in_progress,
                        db_orders_ready>>
       ELSE /\ db_status' = [db_status EXCEPT ![o] = DbNextStatus(@)]
            /\ AssociarPedidoCozinha(o, DbNextStatus(db_status[o]))
    /\ last' = Call("avancar_status", o, NextStatusErr(db_status[o]), 0)
    /\ ServiceVarsUnchanged

\* Pedido.can_be_canceled
can_be_canceled(o) == db_status[o] \notin {BEING_DELIVERED, DELIVERED, CANCELED}

CancelarPedidoErr(o) ==
    IF ~can_be_canceled(o) THEN ErrNotCancelable
    ELSE DbChangeStatusErr(o, CANCELED)

\* PedidoService.cancelar_pedido(pedido_id)
cancelar_pedido(o) ==
    /\ IF ~can_be_canceled(o)
       THEN UNCHANGED <<db_status, db_orders_in_queue, db_orders_in_progress,
                        db_orders_ready>>
       ELSE MudarStatusRows(o, CANCELED)
    /\ last' = Call("cancelar_pedido", o, CancelarPedidoErr(o), 0)
    /\ ServiceVarsUnchanged

FinalizarPedidoErr(o) ==
    IF ~DbHasItems(o) THEN ErrNoItems
    ELSE DbChangeStatusErr(o, PENDING_PAYMENT)

\* PedidoService.finalizar_pedido(pedido_id); the balance is not touched
finalizar_pedido(o) ==
    /\ IF ~DbHasItems(o)
       THEN UNCHANGED <<db_status, db_orders_in_queue, db_orders_in_progress,
                        db_orders_ready>>
       ELSE MudarStatusRows(o, PENDING_PAYMENT)
    /\ last' = Call("finalizar_pedido", o, FinalizarPedidoErr(o), 0)
    /\ ServiceVarsUnchanged

ProcessarPagamentoErr(o) ==
    IF db_status[o] # PENDING_PAYMENT THEN ErrNotAwaitingPayment
    ELSE DbChangeStatusErr(o, WAITING)

\* PedidoService.processar_pagamento(pedido_id); the balance is not touched
processar_pagamento(o) ==
    /\ IF db_status[o] # PENDING_PAYMENT
       THEN UNCHANGED <<db_status, db_orders_in_queue, db_orders_in_progress,
                        db_orders_ready>>
       ELSE MudarStatusRows(o, WAITING)
    /\ last' = Call("processar_pagamento", o, ProcessarPagamentoErr(o), 0)
    /\ ServiceVarsUnchanged

\* ------------------------- persistence variant: kanban status-update view
\* status_order.get(status, 0): CANCELED is not a key of the dictionary
StatusOrder(s) == IF s = CANCELED THEN 0 ELSE s

\* mutant of ValidateStatusTransitionErr: the rule for READY is missing
ValidateStatusTransitionErrNoReadyRule(o, s) ==
    IF db_status[o] \in {CANCELED, DELIVERED} THEN ErrImmutable
    ELSE IF s = PREPARING /\ db_status[o] # WAITING THEN ErrMustBeWaiting
    ELSE IF s = BEING_DELIVERED /\ db_status[o] # READY THEN ErrMustBeReady
    ELSE IF StatusOrder(s) < StatusOrder(db_status[o]) /\ s # CANCELED
         THEN ErrViewBackwards
    ELSE OK

\* BaseKanbanAPIView._validate_status_transition(pedido, novo_status)
ValidateStatusTransitionErr(o, s) ==
    IF db_status[o] \in {CANCELED, DELIVERED} THEN ErrImmutable
    ELSE IF s = PREPARING /\ db_status[o] # WAITING THEN ErrMustBeWaiting
    ELSE IF s = READY /\ db_status[o] # PREPARING THEN ErrMustBePreparing
    ELSE IF s = BEING_DELIVERED /\ db_status[o] # READY THEN ErrMustBeReady
    ELSE IF StatusOrder(s) < StatusOrder(db_status[o]) /\ s # CANCELED
         THEN ErrViewBackwards
    ELSE OK

\* the outcome of the request: the validation, then the exception of
\* Pedido.change_status inside mudar_status, then _get_cozinha inside
\* _update_kitchen_relationships; each of them ends the request
KanbanStatusUpdateErr(o, s) ==
    IF ValidateStatusTransitionErr(o, s) # OK
    THEN ValidateStatusTransitionErr(o, s)
    ELSE IF DbChangeStatusErr(o, s) # OK THEN DbChangeStatusErr(o, s)
    ELSE IF ~db_is_active THEN ErrKitchenInactive
    ELSE OK

\* KanbanStatusUpdateAPIView.post(pedido_id, {"status": s}); the status change
\* and the kitchen update are one transaction, rolled back by an exception
kanban_status_update(o, s) ==
    /\ IF KanbanStatusUpdateErr(o, s) # OK
       THEN UNCHANGED <<db_status, db_orders_in_queue, db_orders_in_progress,
                        db_orders_ready>>
       ELSE /\ db_status' = [db_status EXCEPT ![o] = s]
            /\ AssociarPedidoCozinha(o, s)
    /\ last' = Call("kanban_status_update", o, KanbanStatusUpdateErr(o, s), s)
    /\ ServiceVarsUnchanged

\* ---------------- persistence variant: concurrent start_next_order requests
\* CozinhaService.iniciar_proximo_pedido runs Cozinha.start_next_order for
\* each request with no transaction and no row lock: every query of the
\* method is a step of its own, and the steps of two requests interleave.
\* A request keeps its local next_order and the status that row had when
\* it was read.
StartRequestVarsUnchanged ==
    UNCHANGED <<memVars, db_items, db_total_price, db_price, db_balance,
                db_total_revenue, db_orders_ready, db_full_capacity,
                db_is_active, pay_requests>>

\* if not self.can_start_new_order(): raise
start_check_capacity(r) ==
    /\ start_requests[r].pc = "idle"
    /\ IF db_can_start_new_order
       THEN /\ start_requests' = [start_requests EXCEPT ![r].pc = "first"]
            /\ last' = Call("start_check_capacity", 0, OK, r)
       ELSE /\ UNCHANGED start_requests
            /\ last' = Call("db_start_next_order", 0, ErrDbFull, 0)
    /\ UNCHANGED <<db_status, db_orders_in_queue, db_orders_in_progress>>
    /\ StartRequestVarsUnchanged

\* next_order = self.orders_in_queue.first(); if not next_order: raise
start_first(r) ==
    /\ start_requests[r].pc = "first"
    /\ IF db_orders_in_queue = <<>>
       THEN /\ start_requests' = [start_requests EXCEPT ![r] = Idle]
            /\ last' = Call("db_start_next_order", 0, ErrDbEmpty, 0)
       ELSE /\ start_requests' = [start_requests EXCEPT ![r] =
                   [pc |-> "remove",
                    order |-> DbFirst(db_orders_in_queue),
                    loaded |-> db_status[DbFirst(db_orders_in_queue)]]]
            /\ last' = Call("start_first", DbFirst(db_orders_in_queue), OK, r)
    /\ UNCHANGED <<db_status, db_orders_in_queue, db_orders_in_progress>>
    /\ StartRequestVarsUnchanged

\* self.orders_in_queue.remove(next_order)
start_remove(r) ==
    /\ start_requests[r].pc = "remove"
    /\ db_orders_in_queue' =
           RelationRemove(db_orders_in_queue, start_requests[r].order)
    /\ start_requests' = [start_requests EXCEPT ![r].pc = "change_status"]
    /\ last' = Call("start_remove", start_requests[r].order, OK, r)
    /\ UNCHANGED <<db_status, db_orders_in_progress>>
    /\ StartRequestVarsUnchanged

\* next_order.change_status(StatusPedido.PREPARING), on the row as it was read
start_change_status(r) ==
    /\ start_requests[r].pc = "change_status"
    /\ IF StrLess(StatusText(PREPARING), StatusText(start_requests[r].loaded))
          /\ PREPARING # CANCELED
       THEN /\ start_requests' = [start_requests EXCEPT ![r] = Idle]
            /\ last' = Call("db_start_next_order", start_requests[r].order,
                            ErrBackwards, 0)
            /\ UNCHANGED db_status
       ELSE /\ db_status' = [db_status EXCEPT
                               ![start_requests[r].order] = PREPARING]
            /\ start_requests' = [start_requests EXCEPT ![r].pc = "add"]
            /\ last' = Call("start_change_status", start_requests[r].order, OK, r)
    /\ UNCHANGED <<db_orders_in_queue, db_orders_in_progress>>
    /\ StartRequestVarsUnchanged

\* self.orders_in_progress.add(next_order); return next_order
start_add(r) ==
    /\ start_requests[r].pc = "add"
    /\ db_orders_in_progress' =
           db_orders_in_progress \cup {start_requests[r].order}
    /\ start_requests' = [start_requests EXCEPT ![r] = Idle]
    /\ last' = Call("db_start_next_order", start_requests[r].order, OK,
                    start_requests[r].order)
    /\ UNCHANGED <<db_status, db_orders_in_queue>>
    /\ StartRequestVarsUnchanged

\* ------------------- persistence variant: concurrent payment requests
\* PagamentoService.processar_pagamento runs each request inside
\* transaction.atomic with no row lock taken by its reads: a request loads
\* its own copies of the order, cashier and customer rows, and its writes
\* (Cliente.save, Caixa.save, Pedido.save, each writing the loaded copy's
\* fields) become visible together when it commits. No two requests pay the
\* same order.
PayVarsUnchanged ==
    UNCHANGED <<memVars, db_items, db_total_price, db_price,
                db_orders_in_queue, db_orders_in_progress, db_orders_ready,
                db_full_capacity, db_is_active, start_requests>>

\* pedido = Pedido.objects.get(...); caixa = Caixa.objects.get(...);
\* if pedido.status != ORDERING: raise
pagamento_get(r, o) ==
    /\ pay_requests[r].pc = "idle"
    /\ \A q \in Requests : pay_requests[q].pc # "idle" => pay_requests[q].order # o
    /\ IF db_status[o] # ORDERING
       THEN /\ UNCHANGED pay_requests
            /\ last' = Call("pagamento", o, ErrDbPagamento, r)
       ELSE /\ pay_requests' = [pay_requests EXCEPT ![r] =
                   [pc |-> "cliente", order |-> o,
                    total |-> db_total_price[o],
                    revenue |-> db_total_revenue, balance |-> 0]]
            /\ last' = Call("pagamento_get", o, OK, r)
    /\ UNCHANGED <<db_status, db_balance, db_total_revenue>>
    /\ PayVarsUnchanged

\* if pedido.cliente.balance < pedido.total_price: raise  (the customer row
\* is loaded here and kept on the order)
pagamento_cliente(r) ==
    /\ pay_requests[r].pc = "cliente"
    /\ IF db_balance < pay_requests[r].total
       THEN /\ pay_requests' = [pay_requests EXCEPT ![r] = PayIdle]
            /\ last' = Call("pagamento", pay_requests[r].order, ErrDbSaldo, r)
       ELSE /\ pay_requests' = [pay_requests EXCEPT
                                  ![r].pc = "process_payment",
                                  ![r].balance = db_balance]
            /\ last' = Call("pagamento_cliente", pay_requests[r].order, OK, r)
    /\ UNCHANGED <<db_status, db_balance, db_total_revenue>>
    /\ PayVarsUnchanged

\* a row this request loaded has been written by another request since
PagamentoStale(r) ==
    \/ db_balance # pay_requests[r].balance
    \/ db_total_revenue # pay_requests[r].revenue

\* caixa.process_payment(pedido.cliente, pedido) on the loaded copies, then
\* the commit: remove_funds and add_revenue save the copies' new values,
\* change_status saves PENDING_PAYMENT. When a loaded row is stale the
\* database may instead refuse the write and the request is rolled back.
pagamento_process_payment(r) ==
    /\ pay_requests[r].pc = "process_payment"
    /\ LET o == pay_requests[r].order
           t == pay_requests[r].total
           b == pay_requests[r].balance
           rev == pay_requests[r].revenue
       IN  \/ /\ IF DbRemoveFundsErr(b, t) # OK
                 THEN /\ UNCHANGED <<db_status, db_balance, db_total_revenue>>
                      /\ last' = Call("pagamento", o, DbRemoveFundsErr(b, t), r)
                 ELSE IF ~DbHasItems(o)
                 THEN /\ UNCHANGED <<db_status, db_balance, db_total_revenue>>
                      /\ last' = Call("pagamento", o, ErrNoItems, r)
                 ELSE /\ db_balance' = b - t
                      /\ db_total_revenue' = rev + t
                      /\ db_status' = [db_status EXCEPT ![o] = PENDING_PAYMENT]
                      /\ last' = Call("pagamento", o, OK, r)
           \/ /\ PagamentoStale(r)
              /\ UNCHANGED <<db_status, db_balance, db_total_revenue>>
              /\ last' = Call("pagamento", o, ErrDbLocked, r)
    /\ pay_requests' = [pay_requests EXCEPT ![r] = PayIdle]
    /\ PayVarsUnchanged

\* -------------------------------------------------------- specifications
\* the order's line items (product prices fixed)
NextItens ==
    \/ NewPedido(ORDERING)
    \/ \E o \in Orders, p \in Products : add_item(o, p)
    \/ \E o \in Orders, p \in Products : remove_item(o, p)

SpecItens == InitPedido /\ [][NextItens]_vars

\* the order's items while the products' prices change; the totals explored
\* stay within MaxTotal of zero
NextPrecos ==
    \/ \E o \in Orders, p \in Products :
          total_price[o] < MaxTotal /\ add_item(o, p)
    \/ \E o \in Orders, p \in Products :
          total_price[o] > -MaxTotal /\ remove_item(o, p)
    \/ \E p \in Products, v \in (-1)..MaxPrice : set_price(p, v)
    \/ \E p \in Products, d \in Discounts : apply_discount(p, d)

SpecPrecos == InitPedido /\ [][NextPrecos]_vars

\* the order's status
NextStatusOps ==
    \/ \E s \in StatusPedido : NewPedido(s)
    \/ \E o \in Orders : go_to_next_status(o)
    \/ \E o \in Orders, s \in StatusPedido : change_status(o, s)

SpecStatus == InitPedido /\ [][NextStatusOps]_vars

\* the kitchen with the orders handed to it, without priority insertion;
\* orders arrive still being assembled or already awaiting payment, and only
\* the kitchen's own calls change them afterwards
NextFifo ==
    \/ \E s \in {ORDERING, PENDING_PAYMENT} : NewPedido(s)
    \/ \E o \in Orders : add_order_to_queue(o)
    \/ start_next_order
    \/ \E o \in Orders : complete_order(o)

SpecFifo == InitCozinha /\ [][NextFifo]_vars

\* the kitchen with a longer queue, no priority insertion and no
\* cancellation; start_next_order keeps being attempted and every order in
\* progress is eventually completed
NextFilaLonga ==
    \/ NewPedido(PENDING_PAYMENT)
    \/ \E o \in Orders : AddOrderToQueue(o, MaxBacklog)
    \/ start_next_order
    \/ \E o \in Orders : complete_order(o)

SpecFilaJusta ==
    /\ InitCozinha
    /\ [][NextFilaLonga]_vars
    /\ WF_vars(start_next_order)
    /\ \A o \in Orders : WF_vars(o \in orders_in_progress /\ complete_order(o))

\* the kitchen with the orders handed to it
NextCozinha ==
    \/ NextFifo
    \/ \E o \in Orders : add_priority_order_to_queue(o)

SpecCozinha == InitCozinha /\ [][NextCozinha]_vars

\* the kitchen queue offered orders in every status
NextFila ==
    \/ \E s \in StatusPedido : NewPedido(s)
    \/ \E o \in Orders : add_order_to_queue(o)
    \/ \E o \in Orders : add_priority_order_to_queue(o)

SpecFila == InitCozinha /\ [][NextFila]_vars

\* the kitchen while the orders are also advanced, or a cancellation is
\* attempted, from outside it
NextCozinhaPedido ==
    \/ NextFifo
    \/ \E o \in Orders : go_to_next_status(o)
    \/ \E o \in Orders : change_status(o, CANCELED)

SpecCozinhaPedido == InitCozinha /\ [][NextCozinhaPedido]_vars

\* the customer, the cart and the cashier; the cart taken to the cashier
\* holds at most MaxCartItems items
NextCaixa ==
    \/ \E p \in Products : Len(items[cart]) < MaxCartItems /\ add_item(cart, p)
    \/ \E p \in Products : remove_item(cart, p)
    \/ \E a \in Amounts : add_funds(a)
    \/ \E a \in Amounts : remove_funds(a)
    \/ pay_cart
    \/ process_payment
    \/ \E o \in Orders : add_order_to_queue(o)

SpecCaixa == InitCaixa /\ [][NextCaixa]_vars

\* persistence variant: the order rows
NextDbPedido ==
    \/ \E o \in DbOrders, s \in StatusPedido : db_change_status(o, s)
    \/ \E o \in DbOrders : db_go_to_next_status(o)
    \/ \E o \in DbOrders, p \in Products : db_add_item(o, p)
    \/ \E o \in DbOrders, p \in Products : db_remove_item(o, p)

SpecDbPedido == InitPedido /\ [][NextDbPedido]_vars

\* persistence variant: the line items of one order through the model and
\* the service, with its status changed in between. The item operations
\* read and write the rows of the order they are given and no other.
NextDbItens ==
    \E o \in {1} :
        \/ \E s \in StatusPedido : db_change_status(o, s)
        \/ db_go_to_next_status(o)
        \/ \E p \in Products : db_add_item(o, p)
        \/ \E p \in Products : db_remove_item(o, p)
        \/ \E p \in Products, q \in Quantities : adicionar_item(o, p, q)
        \/ \E p \in Products : remover_item(o, p)
        \/ \E p \in Products, q \in Quantities : atualizar_quantidade_item(o, p, q)

SpecDbItens == InitPedido /\ [][NextDbItens]_vars

\* persistence variant: the customer row, the cashier row and the orders
NextDbCaixa ==
    \/ \E o \in DbOrders, p \in Products : db_add_item(o, p)
    \/ \E o \in DbOrders, p \in Products : db_remove_item(o, p)
    \/ \E a \in Amounts : db_add_funds(a)
    \/ \E a \in Amounts : db_remove_funds(a)
    \/ \E o \in DbOrders : db_process_payment(o)

SpecDbCaixa == InitCaixa /\ [][NextDbCaixa]_vars

\* persistence variant: the kitchen, with the orders advanced step by step
NextDbCozinha ==
    \/ \E o \in DbOrders : db_go_to_next_status(o)
    \/ \E o \in DbOrders : db_add_order_to_queue(o)
    \/ db_start_next_order
    \/ \E o \in DbOrders : db_complete_order(o)
    \/ \E o \in DbOrders : db_deliver_order(o)
    \/ \E v \in BOOLEAN : db_set_is_active(v)

SpecDbCozinha == InitCozinha /\ [][NextDbCozinha]_vars

\* persistence variant: the kitchen with start_next_order run by concurrent
\* requests, one query at a time
NextDbConcorrente ==
    \/ \E o \in DbOrders : db_go_to_next_status(o)
    \/ \E o \in DbOrders : db_add_order_to_queue(o)
    \/ \E o \in DbOrders : db_complete_order(o)
    \/ \E r \in Requests : start_check_capacity(r)
    \/ \E r \in Requests : start_first(r)
    \/ \E r \in Requests : start_remove(r)
    \/ \E r \in Requests : start_change_status(r)
    \/ \E r \in Requests : start_add(r)

SpecDbConcorrente == InitCozinha /\ [][NextDbConcorrente]_vars

\* persistence variant: payments of a customer's orders run by concurrent
\* requests; the orders are assembled while no payment is in flight
NextDbPagamentoConcorrente ==
    \/ \E o \in DbOrders, p \in Products :
          /\ \A r \in Requests : pay_requests[r].pc = "idle"
          /\ db_add_item(o, p)
    \/ \E r \in Requests, o \in DbOrders : pagamento_get(r, o)
    \/ \E r \in Requests : pagamento_cliente(r)
    \/ \E r \in Requests : pagamento_process_payment(r)

\* a customer who starts with the largest balance
InitPagamento == InitWith(MaxBalance, 1)

SpecDbPagamentoConcorrente == InitPagamento /\ [][NextDbPagamentoConcorrente]_vars

\* persistence variant: the kitchen board, with the orders moved by the
\* kitchen's methods and by the status operations of the service
NextDbKanban ==
    \/ \E o \in DbOrders : db_add_order_to_queue(o)
    \/ db_start_next_order
    \/ \E o \in DbOrders : db_complete_order(o)
    \/ \E o \in DbOrders : db_deliver_order(o)
    \/ \E o \in DbOrders, s \in StatusPedido : mudar_status(o, s)
    \/ \E o \in DbOrders : avancar_status(o)
    \/ \E o \in DbOrders : cancelar_pedido(o)
    \/ \E o \in DbOrders : processar_pagamento(o)

\* ... for a kitchen that is active
SpecDbKanbanAtiva == InitCozinha /\ [][NextDbKanban]_vars

\* ... for a kitchen that is active or not
SpecDbKanban == InitKanban /\ [][NextDbKanban]_vars

\* persistence variant: the two ways of an order from ORDERING to the
\* kitchen queue, through the cashier and through the service
NextDbPagamento ==
    \/ \E o \in DbOrders, p \in Products : db_add_item(o, p)
    \/ \E o \in DbOrders : db_process_payment(o)
    \/ \E o \in DbOrders : db_add_order_to_queue(o)
    \/ \E o \in DbOrders : finalizar_pedido(o)
    \/ \E o \in DbOrders : processar_pagamento(o)

SpecDbPagamento == InitCaixa /\ [][NextDbPagamento]_vars

\* persistence variant: the kanban status-update endpoint, with the orders
\* also advanced by the service
NextDbKanbanView ==
    \/ \E o \in DbOrders, s \in StatusPedido : kanban_status_update(o, s)
    \/ \E o \in DbOrders : avancar_status(o)

SpecDbKanbanView == InitKanban /\ [][NextDbKanbanView]_vars

Next ==
    \/ NextStatusOps
    \/ NextItens
    \/ NextCozinha
    \/ NextCaixa
    \/ \E p \in Products, v \in (-1)..MaxPrice : set_price(p, v)
    \/ NextPrecos
    \/ NextFilaLonga
    \/ NextDbPagamentoConcorrente
    \/ NextDbPedido
    \/ NextDbCaixa
    \/ NextDbCozinha
    \/ NextDbItens
    \/ NextDbConcorrente
    \/ NextDbKanban
    \/ NextDbPagamento
    \/ NextDbKanbanView

Spec == Init /\ [][Next]_vars

\* ------------------------------------------------------------ properties
\* C1: in the in-memory kitchen the in-progress counter never exceeds the
\* number of chefs, whatever sequence of add_order_to_queue,
\* add_priority_order_to_queue, start_next_order and complete_order is made.
C1_CapacityNeverExceeded == number_of_orders_in_progress <= number_of_chefs

\* a start was refused because every chef is busy
C1_Witness ==
    /\ last.op = "start_next_order"
    /\ last.err = ErrFull
    /\ number_of_orders_in_progress = number_of_chefs
    /\ orders_in_queue # <<>>

\* C2: without priority insertion the queue is first-in first-out: a
\* successful start_next_order returns the head of the queue and leaves the
\* rest in place, and the only other change to the queue is
\* add_order_to_queue appending at the tail; so orders are started in the
\* order in which they were enqueued.
C2_FifoOrder ==
    [][/\ (last'.op = "start_next_order" /\ last'.err = OK)
            => /\ orders_in_queue # <<>>
               /\ last'.ret = Head(orders_in_queue)
               /\ orders_in_queue' = Tail(orders_in_queue)
       /\ (orders_in_queue' # orders_in_queue)
            => \/ /\ last'.op = "start_next_order"
                  /\ orders_in_queue' = Tail(orders_in_queue)
               \/ /\ last'.op = "add_order_to_queue"
                  /\ orders_in_queue' = Append(orders_in_queue, last'.order)
      ]_vars

\* the earlier of two different queued orders was started, the later waits
C2_Witness ==
    /\ last.op = "start_next_order"
    /\ last.err = OK
    /\ orders_in_queue # <<>>
    /\ Head(orders_in_queue) # last.ret

\* C3: once an order is CANCELED or DELIVERED its status never changes
\* again (stated for the persistence variant's order rows).
C3_TerminalNeverChangesDb ==
    [][\A o \in DbOrders :
          db_status[o] \in {CANCELED, DELIVERED} => db_status'[o] = db_status[o]
      ]_vars

\* C3 for the in-memory order, where change_status always raises
C3_TerminalNeverChangesMem ==
    [][\A o \in created :
          status[o] \in {CANCELED, DELIVERED} => status'[o] = status[o]
      ]_vars

\* C4: after every sequence of add_item and remove_item the order's total
\* is the sum of the prices of the items it holds.
C4_TotalIsSumOfItems ==
    \A o \in created : total_price[o] = SumPrices(items[o], price)

\* an item was removed from an order that still holds another one
C4_Witness ==
    /\ last.op = "remove_item"
    /\ last.err = OK
    /\ items[last.order] # <<>>

\* C5: the customer's balance is never negative, after any sequence of
\* add_funds, remove_funds, pay_cart and process_payment.
C5_BalanceNonNegative == balance >= 0

\* a payment of the whole balance left exactly zero
C5_Witness ==
    /\ last.op = "process_payment"
    /\ last.err = OK
    /\ last.ret > 0
    /\ balance = 0

\* C5 for the persistence variant's customer row
C5_DbBalanceNonNegative == db_balance >= 0

\* C6: process_payment for a customer whose balance is below the cart total
\* raises the insufficient-funds error and changes neither the balance, the
\* revenue nor the cart (same order, same items, same status).
C6_InsufficientFundsNoEffect ==
    [][(last'.op = "process_payment" /\ balance < total_price[cart])
          => /\ last'.err = ErrInsufficient
             /\ UNCHANGED <<balance, total_revenue, cart, created, items,
                            status, total_price>>
      ]_vars

\* a payment was refused for a customer who has money, but not enough
C6_Witness ==
    /\ last.op = "process_payment"
    /\ last.err = ErrInsufficient
    /\ 0 < balance
    /\ balance < total_price[cart]

C8_FailsOnlyWhenInsufficient ==
    [][(last'.op = "process_payment" /\ balance >= total_price[cart])
          => /\ last'.err = OK
             /\ last'.ret = total_price[cart]
             /\ cart' # cart
      ]_vars

\* C9: after a successful process_payment the paid order is in
\* PENDING_PAYMENT, the status add_order_to_queue accepts.
C9_PaidOrderIsPendingPayment ==
    [][(last'.op = "process_payment" /\ last'.err = OK)
          => status'[last'.order] = PENDING_PAYMENT
      ]_vars

\* C10: a successful process_payment leaves the customer with a different,
\* newly constructed cart that is empty, has total 0 and status ORDERING,
\* and keeps the paid order as it was; add_item and remove_item made through
\* the customer's cart change no other order.
C10_CartReplacedByNewOrder ==
    [][/\ (last'.op = "process_payment" /\ last'.err = OK)
            => /\ cart' # cart
               /\ cart' \notin created
               /\ items'[cart'] = <<>>
               /\ total_price'[cart'] = 0
               /\ status'[cart'] = ORDERING
               /\ items'[cart] = items[cart]
               /\ total_price'[cart] = total_price[cart]
       /\ (last'.op \in {"add_item", "remove_item"} /\ last'.order = cart)
            => \A o \in created \ {cart} :
                  /\ items'[o] = items[o]
                  /\ total_price'[o] = total_price[o]
      ]_vars

\* an item was added to the new cart while the paid order keeps its items
C10_Witness ==
    /\ last.op = "add_item"
    /\ last.order = cart
    /\ \E o \in created \ {cart} : items[o] # <<>> /\ total_price[o] > 0


\* C11: add_order_to_queue and add_priority_order_to_queue accept an order
\* exactly when its status is PENDING_PAYMENT (the queue then grows by that
\* order); for every other status the call raises and the queue is unchanged.
C11_OnlyPendingPaymentQueued ==
    [][(last'.op \in {"add_order_to_queue", "add_priority_order_to_queue"})
          => IF status[last'.order] = PENDING_PAYMENT
             THEN /\ last'.err = OK
                  /\ Len(orders_in_queue') = Len(orders_in_queue) + 1
                  /\ InSeq(last'.order, orders_in_queue')
             ELSE /\ last'.err = ErrNotPending
                  /\ orders_in_queue' = orders_in_queue
      ]_vars

\* a priority insertion of a delivered order was refused by a kitchen that
\* has orders queued
C11_Witness ==
    /\ last.op = "add_priority_order_to_queue"
    /\ last.err = ErrNotPending
    /\ status[last.order] = DELIVERED
    /\ orders_in_queue # <<>>


\* C11 for the persistence variant's kitchen, which has no priority method
C11_DbOnlyPendingPaymentQueued ==
    [][(last'.op = "db_add_order_to_queue")
          => IF db_status[last'.order] = PENDING_PAYMENT
             THEN /\ last'.err = OK
                  /\ db_orders_in_queue' = Append(db_orders_in_queue, last'.order)
             ELSE /\ last'.err = ErrDbNotPaid
                  /\ db_orders_in_queue' = db_orders_in_queue
      ]_vars

C13_CapacityErrorNoEffect ==
    [][(last'.op = "start_next_order"
        /\ number_of_orders_in_progress = number_of_chefs)
          => /\ last'.err = ErrFull
             /\ UNCHANGED <<orders_in_queue, orders_in_progress,
                            number_of_orders_in_progress, status>>
      ]_vars

\* a full kitchen with nothing queued answered with the capacity error
C13_Witness ==
    /\ last.op = "start_next_order"
    /\ last.err = ErrFull
    /\ orders_in_queue = <<>>
    /\ number_of_orders_in_progress = number_of_chefs


\* C13 for the persistence variant's kitchen
C13_DbCapacityErrorNoEffect ==
    [][(last'.op = "db_start_next_order"
        /\ Cardinality(db_orders_in_progress) = db_full_capacity)
          => /\ last'.err = ErrDbFull
             /\ UNCHANGED <<db_orders_in_queue, db_orders_in_progress,
                            db_orders_ready, db_status>>
      ]_vars

\* C14: a start_next_order that raises, for whatever reason, leaves the
\* queue, the in-progress set and the in-progress counter as they were.
C14_FailedStartNoEffect ==
    [][(last'.op = "start_next_order" /\ last'.err # OK)
          => UNCHANGED <<orders_in_queue, orders_in_progress,
                         number_of_orders_in_progress>>
      ]_vars

\* C15: complete_order of an order that was queued in PENDING_PAYMENT and
\* started once (so it is in progress, in WAITING) removes it from the
\* in-progress set, decrements the counter and leaves it in READY.
C15_CompletedOrderIsReady ==
    [][(last'.op = "complete_order" /\ last'.err = OK
        /\ status[last'.order] = WAITING)
          => /\ last'.order \notin orders_in_progress'
             /\ number_of_orders_in_progress' = number_of_orders_in_progress - 1
             /\ status'[last'.order] = READY
      ]_vars

\* C16: a successful complete_order(o) takes o out of the in-progress set;
\* o comes back into it only by a start_next_order that returns o; and
\* complete_order(o) for an o that is not in the set raises the not-found
\* error and changes neither the set, the counter nor any status. So a
\* second complete_order(o) without a start of o in between fails without
\* effect.
C16_SecondCompleteFails ==
    [][/\ (last'.op = "complete_order" /\ last'.err = OK)
            => /\ last'.order \in orders_in_progress
               /\ last'.order \notin orders_in_progress'
       /\ (last'.op = "complete_order"
           /\ last'.order \notin orders_in_progress)
            => /\ last'.err = ErrNotInProgress
               /\ UNCHANGED <<orders_in_progress,
                              number_of_orders_in_progress, status>>
       /\ \A o \in orders_in_progress' \ orders_in_progress :
               /\ last'.op = "start_next_order"
               /\ last'.err = OK
               /\ last'.ret = o
      ]_vars

\* an order that was started and completed was completed again and refused,
\* while another order is in progress
C16_Witness ==
    /\ last.op = "complete_order"
    /\ last.err = ErrNotInProgress
    /\ status[last.order] = PREPARING
    /\ last.order \notin orders_in_progress
    /\ orders_in_progress # {}

\* C16 for the persistence variant's kitchen
C16_DbSecondCompleteFails ==
    [][/\ (last'.op = "db_complete_order" /\ last'.err = OK)
            => last'.order \notin db_orders_in_progress'
       /\ (last'.op = "db_complete_order"
           /\ last'.order \notin db_orders_in_progress)
            => /\ last'.err = ErrDbNotInProgress
               /\ UNCHANGED <<db_orders_in_progress, db_orders_ready,
                              db_status>>
       /\ \A o \in db_orders_in_progress' \ db_orders_in_progress :
               /\ last'.op = "db_start_next_order"
               /\ last'.ret = o
      ]_vars

\* C17: a complete_order that raises, for whatever reason, leaves the
\* in-progress set and the in-progress counter as they were.
C17_FailedCompleteNoEffect ==
    [][(last'.op = "complete_order" /\ last'.err # OK)
          => UNCHANGED <<orders_in_progress, number_of_orders_in_progress>>
      ]_vars

\* C18: no order is in the queue twice and no queued order is in progress
\* (the in-memory kitchen keeps no collection of ready orders).
C18_OneCollectionOnce ==
    /\ \A i, j \in DOMAIN orders_in_queue :
          i # j => orders_in_queue[i] # orders_in_queue[j]
    /\ \A i \in DOMAIN orders_in_queue :
          orders_in_queue[i] \notin orders_in_progress

\* C18 for the persistence variant's kitchen, whose collections are sets
C18_DbOneCollection ==
    /\ \A i, j \in DOMAIN db_orders_in_queue :
          i # j => db_orders_in_queue[i] # db_orders_in_queue[j]
    /\ DbQueued \cap db_orders_in_progress = {}
    /\ DbQueued \cap db_orders_ready = {}
    /\ db_orders_in_progress \cap db_orders_ready = {}

\* C19: change_status(new) raises and keeps the status exactly when new is
\* lower than the current status and is not CANCELED; for every other pair
\* it returns and the status is new.
C19_ChangeStatusForwardOrCancel ==
    [][(last'.op = "change_status")
          => IF last'.ret < status[last'.order] /\ last'.ret # CANCELED
             THEN /\ last'.err # OK
                  /\ status'[last'.order] = status[last'.order]
             ELSE /\ last'.err = OK
                  /\ status'[last'.order] = last'.ret
      ]_vars

\* C20: go_to_next_status on a status other than CANCELED and DELIVERED
\* returns and moves the order to the status exactly one greater; on
\* CANCELED and on DELIVERED it raises and the status stays.
C20_NextStatusIsSuccessor ==
    [][(last'.op = "go_to_next_status")
          => IF status[last'.order] \in {CANCELED, DELIVERED}
             THEN /\ last'.err # OK
                  /\ status'[last'.order] = status[last'.order]
             ELSE /\ last'.err = OK
                  /\ status'[last'.order] = status[last'.order] + 1
                  /\ status'[last'.order] \in StatusPedido
      ]_vars

\* the last step of the chain: BEING_DELIVERED became DELIVERED
C20_Witness ==
    /\ last.op = "go_to_next_status"
    /\ last.err = OK
    /\ status[last.order] = DELIVERED

\* C20 for the persistence variant's order rows
C20_DbNextStatusIsSuccessor ==
    [][(last'.op = "db_go_to_next_status")
          => IF db_status[last'.order] \in {CANCELED, DELIVERED}
             THEN /\ last'.err # OK
                  /\ db_status'[last'.order] = db_status[last'.order]
             ELSE /\ last'.err = OK
                  /\ db_status'[last'.order] = db_status[last'.order] + 1
      ]_vars


\* C21: change_status(CANCELED) succeeds from every non-terminal status
\* (ORDERING through BEING_DELIVERED): the call ends without an error and
\* the order is CANCELED afterwards.
C21_CancelFromNonTerminal ==
    [][\A o \in Orders :
        ( /\ last'.op = "change_status"
          /\ last'.order = o
          /\ last'.ret = CANCELED
          /\ o \in created
          /\ status[o] \in ORDERING..BEING_DELIVERED )
        => (last'.err = OK /\ status'[o] = CANCELED)]_vars

\* C21, persistence Pedido: cancelling succeeds from every non-terminal
\* status and go_to_next_status on a cancelled order raises without a change
C21_DbCancelThenTerminal ==
    [][\A o \in DbOrders :
        /\ ( /\ last'.op = "db_change_status"
             /\ last'.order = o
             /\ last'.ret = CANCELED
             /\ db_status[o] \in ORDERING..BEING_DELIVERED )
           => (last'.err = OK /\ db_status'[o] = CANCELED)
        /\ ( /\ last'.op = "db_go_to_next_status"
             /\ last'.order = o
             /\ db_status[o] = CANCELED )
           => (last'.err = ErrCanceled /\ db_status'[o] = CANCELED)]_vars

\* number of occurrences of x in the list s
Occurrences(x, s) == Cardinality({i \in 1..Len(s) : s[i] = x})

\* C22: add_funds raises for every amount <= 0, remove_funds raises for every
\* amount <= 0 or amount > balance; a failing call leaves the balance
\* unchanged and a succeeding call changes it by exactly the amount.
C22_FundsChecked ==
    [][/\ last'.op = "add_funds" =>
            \A a \in Amounts : add_funds(a) =>
                IF a <= 0
                THEN last'.err # OK /\ balance' = balance
                ELSE last'.err = OK /\ balance' = balance + a
       /\ last'.op = "remove_funds" =>
            \A a \in Amounts : remove_funds(a) =>
                IF a <= 0 \/ a > balance
                THEN last'.err # OK /\ balance' = balance
                ELSE last'.err = OK /\ balance' = balance - a]_vars

\* a withdrawal larger than a positive balance has been refused
C22_Witness ==
    /\ last.op = "remove_funds"
    /\ last.err = ErrInsufficient
    /\ balance > 0

\* C22, persistence Cliente: the same contract for balance kept in the database
C22_DbFundsChecked ==
    [][/\ last'.op = "add_funds" =>
            \A a \in Amounts : db_add_funds(a) =>
                IF a <= 0
                THEN last'.err # OK /\ db_balance' = db_balance
                ELSE last'.err = OK /\ db_balance' = db_balance + a
       /\ last'.op = "remove_funds" =>
            \A a \in Amounts : db_remove_funds(a) =>
                IF a <= 0 \/ a > db_balance
                THEN last'.err # OK /\ db_balance' = db_balance
                ELSE last'.err = OK /\ db_balance' = db_balance - a]_vars

\* C23: remove_item raises when the product is not in the order and leaves
\* items and total unchanged; when it is present, one occurrence is removed
\* and the total decreases by the product's price.
C23_RemoveItemChecked ==
    [][last'.op = "remove_item" =>
        \A p \in Products : remove_item(last'.order, p) =>
            LET o == last'.order IN
            IF ~InSeq(p, items[o])
            THEN /\ last'.err = ErrNotFound
                 /\ items'[o] = items[o]
                 /\ total_price'[o] = total_price[o]
            ELSE /\ last'.err = OK
                 /\ Len(items'[o]) = Len(items[o]) - 1
                 /\ Occurrences(p, items'[o]) = Occurrences(p, items[o]) - 1
                 /\ \A q \in Products \ {p} :
                        Occurrences(q, items'[o]) = Occurrences(q, items[o])
                 /\ total_price'[o] = total_price[o] - price[p]]_vars

\* a product absent from a non-empty order has been refused
C23_Witness ==
    /\ last.op = "remove_item"
    /\ last.err = ErrNotFound
    /\ last.order \in created
    /\ items[last.order] # <<>>


\* C26: the persistence kitchen's start_next_order is FIFO: the order it
\* starts is the one that entered orders_in_queue earliest, and the other
\* queued orders keep their places.
C26_DbStartsEarliestEntered ==
    [][(last'.op = "db_start_next_order" /\ last'.err = OK)
          => /\ last'.ret = Head(db_orders_in_queue)
             /\ db_orders_in_queue' = Tail(db_orders_in_queue)
      ]_vars


\* the operations that add, remove or change line items
ItemOps ==
    {"db_add_item", "db_remove_item", "adicionar_item", "remover_item",
     "atualizar_quantidade_item"}

\* C24: in the persistence variant the line items of an order change only
\* while its status is ORDERING: for every other status the items and the
\* total are left as they are by every step, and Pedido.add_item,
\* Pedido.remove_item and the PedidoService item operations fail.
C24_DbItemsOnlyWhileOrdering ==
    [][\A o \in DbOrders :
        db_status[o] # ORDERING =>
            /\ db_items'[o] = db_items[o]
            /\ db_total_price'[o] = db_total_price[o]
            /\ (last'.op \in ItemOps /\ last'.order = o)
                  => last'.err = ErrNotOrdering]_vars

\* a change of quantity has been refused for an order with items in preparation
C24_Witness ==
    /\ last.op = "atualizar_quantidade_item"
    /\ last.err = ErrNotOrdering
    /\ db_status[last.order] = PREPARING
    /\ DbHasItems(last.order)


\* C25: the persistence kitchen never has more orders in orders_in_progress
\* than full_capacity, also when start_next_order requests run concurrently.
C25_DbCapacityUnderConcurrency ==
    Cardinality(db_orders_in_progress) <= db_full_capacity


\* the status operations of PedidoService
StatusOps == {"mudar_status", "avancar_status", "cancelar_pedido", "processar_pagamento"}

\* C27: after any sequence of kitchen operations and service status
\* operations every order in orders_in_queue is WAITING, every order in
\* orders_in_progress is PREPARING and every order in orders_ready is READY.
C27_DbCollectionsMatchStatus ==
    \A o \in DbOrders :
        /\ o \in DbQueued => db_status[o] = WAITING
        /\ o \in db_orders_in_progress => db_status[o] = PREPARING
        /\ o \in db_orders_ready => db_status[o] = READY

\* C28: an order that the service has moved to a status other than WAITING,
\* PREPARING and READY is in none of the kitchen's three collections.
C28_DbLeavesCollections ==
    [][( /\ last'.op \in StatusOps
         /\ last'.err = OK
         /\ db_status'[last'.order] \notin {WAITING, PREPARING, READY} )
          => /\ ~InSeq(last'.order, db_orders_in_queue')
             /\ last'.order \notin db_orders_in_progress'
             /\ last'.order \notin db_orders_ready'
      ]_vars

\* C29: orders_in_progress never holds more orders than full_capacity when
\* the kitchen's methods are mixed with the service's status operations: a
\* move from WAITING to PREPARING by avancar_status or mudar_status does not
\* take it above the capacity.
C29_DbCapacityWithService ==
    [][( /\ last'.op \in {"avancar_status", "mudar_status"}
         /\ db_status[last'.order] = WAITING
         /\ db_status'[last'.order] = PREPARING )
          => Cardinality(db_orders_in_progress') <= db_full_capacity
      ]_vars

\* the sum of total_price over the orders of the list q
RECURSIVE DbSumTotals(_)
DbSumTotals(q) ==
    IF q = <<>> THEN 0 ELSE db_total_price[Head(q)] + DbSumTotals(Tail(q))

\* C30: only paid orders are in the kitchen queue: the totals of the queued
\* orders have been debited from the customer, so the cashier has received
\* at least their sum.
C30_DbQueuedOrdersPaid ==
    DbSumTotals(db_orders_in_queue) <= db_total_revenue


\* C31: through the kanban status-update endpoint an order is set to
\* PREPARING only from WAITING, to READY only from PREPARING and to
\* BEING_DELIVERED only from READY, and no status is set on an order that is
\* CANCELED or DELIVERED; a rejected request leaves every status unchanged.
C31_KanbanTransitions ==
    [][last'.op = "kanban_status_update" =>
        LET o == last'.order
            s == last'.ret
        IN  /\ last'.err # OK => db_status' = db_status
            /\ last'.err = OK =>
                  /\ db_status' = [db_status EXCEPT ![o] = s]
                  /\ db_status[o] \notin {CANCELED, DELIVERED}
                  /\ s = PREPARING => db_status[o] = WAITING
                  /\ s = READY => db_status[o] = PREPARING
                  /\ s = BEING_DELIVERED => db_status[o] = READY
      ]_vars

\* a request to set a WAITING order to READY has been rejected
C31_Witness ==
    /\ last.op = "kanban_status_update"
    /\ last.err = ErrMustBePreparing
    /\ last.ret = READY
    /\ db_status[last.order] = WAITING


\* C32: pay_cart is all-or-nothing: it either debits the cart total and puts
\* the cart in PENDING_PAYMENT, or raises with the balance and the cart's
\* status exactly as before the call.
C32_PayCartAllOrNothing ==
    [][last'.op = "pay_cart" =>
          IF last'.err = OK
          THEN /\ balance' = balance - total_price[cart]
               /\ status'[cart] = PENDING_PAYMENT
          ELSE /\ balance' = balance
               /\ status' = status]_vars


\* a payment call that took the order's total from the balance: pay_cart
\* debits before change_status raises, process_payment debits when it succeeds
Debited(l) ==
    \/ l.op = "pay_cart" /\ l.err \in {OK, ErrTypeError}
    \/ l.op = "process_payment" /\ l.err = OK

\* C33: an order is charged at most once: a payment call that debited the
\* balance for an order is not followed by a payment call that debits the
\* balance for the same order again.
C33_ChargedAtMostOnce ==
    [][(/\ Debited(last)
        /\ last'.op \in {"pay_cart", "process_payment"}
        /\ last'.order = last.order)
          => balance' = balance]_vars


\* C34: in the in-memory kitchen the counter number_of_orders_in_progress
\* equals the number of entries of the in-progress mapping in every reachable
\* state, also when one order was put in the queue more than once.
C34_CounterMatchesMapping ==
    number_of_orders_in_progress = Cardinality(orders_in_progress)


\* C35: add_item(p) followed later by remove_item(p) restores the order's
\* total, also when p's price was changed in between; in particular an
\* order with no items has total 0.
C35_EmptyOrderTotalZero ==
    \A o \in created : items[o] = <<>> => total_price[o] = 0


\* C36: in the persistence variant no order without line items has status
\* PENDING_PAYMENT or a later one (WAITING through DELIVERED).
C36_DbNoEmptyOrderPastOrdering ==
    \A o \in DbOrders :
        ~DbHasItems(o) => db_status[o] \in {CANCELED, ORDERING}


\* C37: with no priority insertion and no cancellation, under weak fairness
\* of start_next_order and of complete_order for the orders in progress,
\* every order in the queue is eventually started.
C37_QueuedEventuallyStarted ==
    \A o \in Orders :
        InSeq(o, orders_in_queue)
            ~> (last.op = "start_next_order" /\ last.err = OK /\ last.ret = o)


\* the sum of the totals of the orders that have been paid
RECURSIVE DbPaidTotals(_)
DbPaidTotals(n) ==
    IF n = 0 THEN 0
    ELSE (IF db_status[n] = PENDING_PAYMENT THEN db_total_price[n] ELSE 0)
         + DbPaidTotals(n - 1)

\* C38: when the payments of different orders of one customer are processed
\* concurrently, then once they have all finished the stored balance is
\* reduced by the sum of the paid orders' totals and the stored revenue is
\* increased by that same sum.
C38_DbConcurrentPaymentsAddUp ==
    (\A r \in Requests : pay_requests[r].pc = "idle")
        => /\ db_balance = MaxBalance - DbPaidTotals(MaxDbOrders)
           /\ db_total_revenue = DbPaidTotals(MaxDbOrders)

====
